---- MODULE Spec2Model ----
(***************************************************************************)
(* Key rotation engine (KeyManager), credential store (ApiKey) and the     *)
(* chat-completions retry loop of gemini-load-balancer.                    *)
(*                                                                         *)
(* Granularity.  getKey, markKeyError and addKey run under the async-mutex *)
(* and are split at the awaits that wait for database or settings I/O.     *)
(* markKeySuccess takes no mutex; it mutates the current key object and    *)
(* issues its UPDATE without an I/O wait in between, so it is one step     *)
(* that may fall between two steps of an operation that holds the mutex.   *)
(* Time is a tick counter; a local day is DayLen ticks.                    *)
(***************************************************************************)
EXTENDS Integers, Sequences, FiniteSets, TLC

\* ---------------------------------------------------------------- bounds
NumKeys == 2
NumReqs == 2
DayLen == 2
MaxTime == 2
MaxAdds == 1
MaxStarts == 3
DailyCap == 1
StartTime == 1
MaxRetriesHi == 3
BusyStarts == 2
MaxAdminOps == 1
MaxDelay == 1

\* ------------------------------------------------------------- settings
\* values of the configurable settings returned by readSettings()
keyRotationRequestCount == 2
maxFailureCount == 2
rateLimitCooldown == 1
maxRetries == 2

Keys == 1..NumKeys
Reqs == 1..NumReqs
Null == -1
Free == 0
MasterKey == 1
OtherKey == 2
Admin == NumReqs + 1
\* the empty string as a key value
Empty == 0

VARIABLES
    db,              \* api_keys table: key id -> row (id = 0: no such row)
    currentKey,      \* KeyManager.currentKey: in-memory ApiKey instance
    requestCounter,  \* KeyManager.requestCounter
    mutex,           \* holder of KeyManager.mutex (Free, a request, Admin)
    lpc,             \* position of the operation that holds the mutex
    snap,            \* rows read by the pending findAll / findOne
    addArg,          \* argument of the pending addKey
    rq,              \* per request: position in POST, key id, retryCount
    now,             \* wall clock
    added,           \* number of addKey calls
    started,         \* number of handler instances run one after another
    settings,        \* settings row: the fields whose values vary
    masterApiKey,    \* process.env.MASTER_API_KEY (Null: not set)
    counting,        \* history: whether rq[r].rot is recorded in this specification
    checked,         \* history: key -> a daily-reset check saw it on this local day
    reactivated,     \* history: key -> addKey restored it, no outcome for it since
    addRes,          \* outcome of the last addKey call
    patch,           \* pending admin PATCH: the row its findOne returned
    revoked          \* history: key -> "off" after PATCH deactivated it, "gone"
                     \* after DELETE removed it, "no" otherwise

vars == <<db, currentKey, requestCounter, mutex, lpc, snap, addArg, rq, now, added,
          started, settings, masterApiKey, counting, checked, reactivated,
          addRes, patch, revoked>>

\* ------------------------------------------------------------ ApiKey rows
NewRow(id, limit) ==
    [id |-> id, isActive |-> TRUE, lastUsed |-> Null,
     rateLimitResetAt |-> Null, failureCount |-> 0, requestCount |-> 0,
     dailyRateLimit |-> limit, dailyRequestsUsed |-> 0,
     lastResetDate |-> Null, isDisabledByRateLimit |-> FALSE]

NoRow == NewRow(0, Null)

\* UPDATE api_keys SET ... WHERE _id = ?  (no row with that id: no effect)
save(d, obj) ==
    IF obj.id \in Keys /\ d[obj.id].id # 0 THEN [d EXCEPT ![obj.id] = obj] ELSE d

\* rows of the table in rowid order
RECURSIVE RowsFrom(_, _)
RowsFrom(d, k) ==
    IF k > NumKeys THEN <<>>
    ELSE IF d[k].id # 0 THEN <<d[k]>> \o RowsFrom(d, k + 1)
    ELSE RowsFrom(d, k + 1)

AllRows(d) == RowsFrom(d, 1)

\* the table has a row with this id
Present(k) == db[k].id # 0

\* ---------------------------------------------------------------- dates
DayOf(t) == t \div DayLen

\* variant: the timestamps themselves are compared, not their calendar days
isSameLocalDay_Exact(d1, d2) ==
    IF d1 = Null \/ d2 = Null THEN FALSE ELSE d1 = d2

isSameLocalDay(d1, d2) ==
    IF d1 = Null \/ d2 = Null THEN FALSE ELSE DayOf(d1) = DayOf(d2)

\* ------------------------------------------------- daily reset (getKey)
\* getKey, check 2: the current key object after the check
NeedsDailyReset(key, t) ==
    key.lastResetDate = Null \/ ~isSameLocalDay(key.lastResetDate, t)

DailyResetCheck(key, t) ==
    IF NeedsDailyReset(key, t)
    THEN [key EXCEPT !.dailyRequestsUsed = 0,
                     !.isDisabledByRateLimit = FALSE,
                     !.lastResetDate = t]
    ELSE key

\* ------------------------------------------- daily reset (rotation sweep)
\* _internalRotateKey, body of the loop over allActiveKeys
SweepNeedsUpdate(key, t) ==
    /\ (key.lastResetDate = Null \/ ~isSameLocalDay(key.lastResetDate, t))
    /\ (key.dailyRequestsUsed > 0 \/ key.isDisabledByRateLimit
        \/ key.lastResetDate = Null)

SweepKey(key, t) ==
    IF key.lastResetDate = Null \/ ~isSameLocalDay(key.lastResetDate, t)
    THEN IF key.dailyRequestsUsed > 0 \/ key.isDisabledByRateLimit
         THEN [key EXCEPT !.dailyRequestsUsed = 0,
                          !.isDisabledByRateLimit = FALSE,
                          !.lastResetDate = t]
         ELSE IF key.lastResetDate = Null
              THEN [key EXCEPT !.lastResetDate = t]
              ELSE key
    ELSE key

\* ApiKey.findAll({isActive: true})
RECURSIVE FilterActive(_)
FilterActive(s) ==
    IF s = <<>> THEN <<>>
    ELSE IF Head(s).isActive THEN <<Head(s)>> \o FilterActive(Tail(s))
    ELSE FilterActive(Tail(s))

\* ApiKey.bulkUpdate of the keys the sweep changed
RECURSIVE bulkUpdate(_, _, _)
bulkUpdate(d, s, t) ==
    IF s = <<>> THEN d
    ELSE bulkUpdate(IF SweepNeedsUpdate(Head(s), t)
                    THEN save(d, SweepKey(Head(s), t)) ELSE d,
                    Tail(s), t)

\* ------------------------------------------------------ candidate set
\* WHERE isActive = 1 AND isDisabledByRateLimit = 0
\*   AND (rateLimitResetAt IS NULL OR rateLimitResetAt <= now)
\* variant: the rateLimitResetAt condition is missing from the query
IsAvailable_NoCooldown(key, t) ==
    key.isActive /\ ~key.isDisabledByRateLimit

\* variant: the isActive condition is missing from the query
IsAvailable_AnyActivity(key, t) ==
    /\ ~key.isDisabledByRateLimit
    /\ (key.rateLimitResetAt = Null \/ key.rateLimitResetAt <= t)

\* variant: the isDisabledByRateLimit condition is missing from the query
IsAvailable_IgnoresDailyLimit(key, t) ==
    /\ key.isActive
    /\ (key.rateLimitResetAt = Null \/ key.rateLimitResetAt <= t)

\* variant: only keys that never had a cooldown pass the query
IsAvailable_NullCooldownOnly(key, t) ==
    /\ key.isActive
    /\ ~key.isDisabledByRateLimit
    /\ key.rateLimitResetAt = Null

IsAvailable(key, t) ==
    /\ key.isActive
    /\ ~key.isDisabledByRateLimit
    /\ (key.rateLimitResetAt = Null \/ key.rateLimitResetAt <= t)

RECURSIVE FilterAvailable(_, _)
FilterAvailable(s, t) ==
    IF s = <<>> THEN <<>>
    ELSE IF IsAvailable(Head(s), t)
         THEN <<Head(s)>> \o FilterAvailable(Tail(s), t)
         ELSE FilterAvailable(Tail(s), t)

\* ----------------------------------------------------------- selection
\* comparator of availableKeys.sort(...)
lruCompare(a, b) ==
    IF a.lastUsed = Null THEN -1
    ELSE IF b.lastUsed = Null THEN 1
    ELSE a.lastUsed - b.lastUsed

\* Array.prototype.sort is stable: x goes behind every y with compare(x, y) >= 0
RECURSIVE InsertSorted(_, _)
InsertSorted(x, s) ==
    IF s = <<>> THEN <<x>>
    ELSE IF lruCompare(x, Head(s)) < 0 THEN <<x>> \o s
    ELSE <<Head(s)>> \o InsertSorted(x, Tail(s))

RECURSIVE SortKeys(_)
SortKeys(s) ==
    IF s = <<>> THEN <<>>
    ELSE InsertSorted(s[Len(s)], SortKeys(SubSeq(s, 1, Len(s) - 1)))

\* availableKeys.find(k => k.lastUsed === null)
RECURSIVE FindUnused(_)
FindUnused(s) ==
    IF s = <<>> THEN NoRow
    ELSE IF Head(s).lastUsed = Null THEN Head(s)
    ELSE FindUnused(Tail(s))

\* variant: the first candidate in table order is taken
SelectKey_First(avail) == avail[1]

SelectKey(avail) ==
    IF FindUnused(avail).id # 0 THEN FindUnused(avail)
    ELSE SortKeys(avail)[1]

\* ------------------------------------------------------------ requests
\* max: the maxRetries this request read from the settings;
\* history: rot counts the Key Rotation events of its getKey calls, hist lists
\* the outcomes of its upstream calls, rev holds the keys that were deactivated
\* or removed by the admin when its latest getKey call began
IdleReq ==
    [pc |-> "idle", key |-> Null, retry |-> 0, err |-> "none", res |-> "none",
     max |-> 0, rot |-> 0, hist |-> <<>>, tok |-> Null,
     reset |-> Null, logs |-> 0, logKey |-> Null, rev |-> {}]

\* RequestLog.create({apiKeyId: apiKeyIdForAttempt || 'UNKNOWN', ...})
WriteLog(q) == [q EXCEPT !.logs = q.logs + 1, !.logKey = q.key]

\* while (retryCount < maxRetries): next position of a request with that count;
\* after the loop the final failure is logged and answered
LoopEntry(q) ==
    IF q.retry < q.max THEN [q EXCEPT !.pc = "loop"]
    ELSE WriteLog([q EXCEPT !.pc = "done", !.res = "maxRetries"])

\* error.response?.status || 500
statusCode(err) ==
    IF err = "429" THEN 429 ELSE IF err = "4xx" THEN 400 ELSE 500

\* the condition under which the catch block writes the error to the log
ErrorLogged(q, isRateLimit) ==
    ~((isRateLimit \/ statusCode(q.err) >= 500) /\ q.retry < q.max - 1)

\* the catch block does not retry: optional log entry, error response
ErrorResponse(q, isRateLimit) ==
    IF ErrorLogged(q, isRateLimit)
    THEN WriteLog([q EXCEPT !.pc = "done", !.res = q.err])
    ELSE [q EXCEPT !.pc = "done", !.res = q.err]

\* variant: every failure is retried while attempts remain
AfterMarkError_RetryAll(q, isRateLimit) ==
    IF q.retry < q.max - 1
    THEN LoopEntry([q EXCEPT !.retry = q.retry + 1])
    ELSE ErrorResponse(q, isRateLimit)

\* catch block after markKeyError returned isRateLimit
AfterMarkError(q, isRateLimit) ==
    IF (isRateLimit \/ q.err = "5xx") /\ q.retry < q.max - 1
    THEN LoopEntry([q EXCEPT !.retry = q.retry + 1])
    ELSE ErrorResponse(q, isRateLimit)

Limits == {Null, DailyCap}

\* the store holds keys added earlier and not used yet; the engine is new
Init ==
    /\ \E n \in Keys : \E lim \in [1..n -> Limits] :
           db = [k \in Keys |-> IF k <= n THEN NewRow(k, lim[k]) ELSE NoRow]
    /\ added = 0
    /\ started = 1
    /\ checked = [k \in Keys |-> FALSE]
    /\ reactivated = [k \in Keys |-> FALSE]
    /\ currentKey = NoRow
    /\ requestCounter = 0
    /\ mutex = Free
    /\ lpc = "none"
    /\ snap = <<>>
    /\ addArg = [key |-> Null, limit |-> Null]
    /\ addRes = "none"
    /\ patch = <<>>
    /\ revoked = [k \in Keys |-> "no"]
    /\ rq = [r \in Reqs |-> IdleReq]
    /\ now = 0
    /\ settings = [maxRetries |-> maxRetries, keyRotationDelaySeconds |-> 0]
    /\ masterApiKey = Null
    /\ counting = FALSE

\* the server starts on a store whose keys may have been used by an earlier
\* run (lastUsed at or before the start time); the engine is new
InitStored ==
    /\ \E n \in Keys : \E lim \in [1..n -> Limits] :
       \E used \in [1..n -> {Null} \cup 0..StartTime] :
           db = [k \in Keys |->
                    IF k <= n THEN [NewRow(k, lim[k]) EXCEPT !.lastUsed = used[k]]
                    ELSE NoRow]
    /\ added = 0
    /\ started = 1
    /\ checked = [k \in Keys |-> FALSE]
    /\ reactivated = [k \in Keys |-> FALSE]
    /\ currentKey = NoRow
    /\ requestCounter = 0
    /\ mutex = Free
    /\ lpc = "none"
    /\ snap = <<>>
    /\ addArg = [key |-> Null, limit |-> Null]
    /\ addRes = "none"
    /\ patch = <<>>
    /\ revoked = [k \in Keys |-> "no"]
    /\ rq = [r \in Reqs |-> IdleReq]
    /\ now = StartTime
    /\ \E m \in maxRetries..MaxRetriesHi : settings = [maxRetries |-> m, keyRotationDelaySeconds |-> 0]
    /\ masterApiKey \in {Null, MasterKey}
    /\ counting = TRUE

\* no response is being handed to a caller
Settled == \A q \in Reqs : rq[q].pc # "done"

\* Authorization headers: missing, a value without a second word, a bearer
\* token equal to the master key, a bearer token that differs from it
Headers == {<<>>, <<MasterKey>>, <<"Bearer", MasterKey>>, <<"Bearer", OtherKey>>}

\* authHeader?.split(' ')[1]
incomingKey(header) == IF Len(header) >= 2 THEN header[2] ELSE Null

\* variant: a request without a token passes the check
Authorized_MissingPasses(header) ==
    masterApiKey = Null
        \/ incomingKey(header) = Null
        \/ incomingKey(header) = masterApiKey

\* the token of the request, kept with the request when its history is kept
Token(header) == IF counting THEN incomingKey(header) ELSE Null

\* the Master API Key check lets the request pass
Authorized(header) ==
    masterApiKey = Null
        \/ (incomingKey(header) # Null /\ incomingKey(header) = masterApiKey)

\* POST: the check passed, settings read, the request enters the retry loop
Start(r) ==
    /\ Settled
    /\ mutex = Free
    /\ rq[r].pc = "idle"
    /\ \A q \in Reqs : q < r => rq[q].pc # "idle"
    /\ \E header \in Headers :
          /\ Authorized(header)
          /\ rq' = [rq EXCEPT ![r] = LoopEntry([IdleReq EXCEPT
                                          !.max = settings.maxRetries,
                                          !.tok = Token(header)])]
    /\ UNCHANGED <<db, currentKey, requestCounter, mutex, lpc, snap, addArg, now, added,
                 started, settings, masterApiKey, counting, checked, reactivated,
                 addRes, patch, revoked>>

\* POST: the Master API Key check fails, 401 is returned
Unauthorized(r) ==
    /\ Settled
    /\ mutex = Free
    /\ rq[r].pc = "idle"
    /\ \A q \in Reqs : q < r => rq[q].pc # "idle"
    /\ \E header \in Headers :
          /\ ~Authorized(header)
          /\ rq' = [rq EXCEPT ![r] = [IdleReq EXCEPT !.pc = "done", !.res = "401",
                                                     !.tok = Token(header)]]
    /\ UNCHANGED <<db, currentKey, requestCounter, mutex, lpc, snap, addArg, now, added,
                 started, settings, masterApiKey, counting, checked, reactivated,
                 addRes, patch, revoked>>

\* ------------------------------------------------------------- getKey
LimitReached(key) ==
    /\ key.dailyRateLimit # Null
    /\ key.dailyRateLimit > 0
    /\ key.dailyRequestsUsed >= key.dailyRateLimit

InCooldown(key, t) ==
    key.rateLimitResetAt # Null /\ key.rateLimitResetAt > t

\* checks 3 and 4 on the current key, up to the next await
\* (save() after check 4, readSettings() before check 5, findAll in rotation)
ChecksBody ==
    IF InCooldown(currentKey, now)
    THEN /\ currentKey' = NoRow
         /\ lpc' = "sweepRead"
         /\ db' = db
    ELSE IF LimitReached(currentKey)
    THEN /\ currentKey' = [currentKey EXCEPT !.isDisabledByRateLimit = TRUE]
         /\ db' = save(db, currentKey')
         /\ lpc' = "disabled"
    ELSE /\ lpc' = "threshold"
         /\ UNCHANGED <<currentKey, db>>

\* runExclusive acquired; check 1, check 2 and, when check 2 does not save,
\* checks 3 and 4
GetKeyStart(r) ==
    /\ Settled
    /\ mutex = Free
    /\ rq[r].pc = "loop"
    /\ mutex' = r
    /\ rq' = [rq EXCEPT ![r].pc = "getKey",
                        ![r].rev = {k \in Keys : revoked[k] # "no"}]
    /\ IF currentKey.id = 0
       THEN /\ lpc' = "sweepRead"
            /\ UNCHANGED <<currentKey, db>>
       ELSE IF NeedsDailyReset(currentKey, now)
       THEN /\ currentKey' = DailyResetCheck(currentKey, now)
            /\ db' = save(db, currentKey')
            /\ lpc' = "checks"
       ELSE ChecksBody
    /\ checked' = IF currentKey.id = 0 THEN checked
                  ELSE [checked EXCEPT ![currentKey.id] = TRUE]
    /\ UNCHANGED <<requestCounter, snap, addArg, now, added,
                 started, settings, masterApiKey, counting, reactivated,
                 addRes, patch, revoked>>

\* check 2 saved the reset: checks 3 and 4 after save() returned
GetKeyChecks(r) ==
    /\ Settled
    /\ mutex = r
    /\ lpc = "checks"
    /\ ChecksBody
    /\ UNCHANGED <<requestCounter, mutex, snap, addArg, rq, now, added,
                 started, settings, masterApiKey, counting, checked, reactivated,
                 addRes, patch, revoked>>

\* check 4 after save() returned: the slot is cleared
GetKeyDisabled(r) ==
    /\ Settled
    /\ mutex = r
    /\ lpc = "disabled"
    /\ currentKey' = NoRow
    /\ lpc' = "sweepRead"
    /\ UNCHANGED <<db, requestCounter, mutex, snap, addArg, rq, now, added,
                 started, settings, masterApiKey, counting, checked, reactivated,
                 addRes, patch, revoked>>

\* check 5 after readSettings() returned
GetKeyThreshold(r) ==
    /\ Settled
    /\ mutex = r
    /\ lpc = "threshold"
    /\ IF keyRotationRequestCount > 0 /\ requestCounter >= keyRotationRequestCount
       THEN /\ lpc' = "sweepRead"
            /\ UNCHANGED <<requestCounter, mutex, rq>>
       ELSE /\ requestCounter' = requestCounter + 1
            /\ rq' = [rq EXCEPT ![r].pc = "upstream", ![r].key = currentKey.id]
            /\ mutex' = Free
            /\ lpc' = "none"
    /\ UNCHANGED <<db, currentKey, snap, addArg, now, added,
                 started, settings, masterApiKey, counting, checked, reactivated,
                 addRes, patch, revoked>>

\* _internalRotateKey: findAll({isActive: true}) returns
SweepRead(r) ==
    /\ Settled
    /\ mutex = r
    /\ lpc = "sweepRead"
    /\ snap' = FilterActive(AllRows(db))
    /\ lpc' = "sweepWrite"
    /\ UNCHANGED <<db, currentKey, requestCounter, mutex, addArg, rq, now, added,
                 started, settings, masterApiKey, counting, checked, reactivated,
                 addRes, patch, revoked>>

\* _internalRotateKey: the reset loop and bulkUpdate
SweepWrite(r) ==
    /\ Settled
    /\ mutex = r
    /\ lpc = "sweepWrite"
    /\ db' = bulkUpdate(db, snap, now)
    /\ checked' = [k \in Keys |->
                      checked[k] \/ \E i \in 1..Len(snap) : snap[i].id = k]
    /\ snap' = <<>>
    /\ lpc' = "availRead"
    /\ UNCHANGED <<currentKey, requestCounter, mutex, addArg, rq, now, added,
                 started, settings, masterApiKey, counting, reactivated,
                 addRes, patch, revoked>>

\* _internalRotateKey: findAll(available) returns
AvailRead(r) ==
    /\ Settled
    /\ mutex = r
    /\ lpc = "availRead"
    /\ snap' = FilterAvailable(AllRows(db), now)
    /\ lpc' = "select"
    /\ UNCHANGED <<db, currentKey, requestCounter, mutex, addArg, rq, now, added,
                 started, settings, masterApiKey, counting, checked, reactivated,
                 addRes, patch, revoked>>

\* _internalRotateKey: empty candidate set throws, otherwise selection
RotateSelect(r) ==
    /\ Settled
    /\ mutex = r
    /\ lpc = "select"
    /\ IF snap = <<>>
       THEN /\ rq' = [rq EXCEPT ![r].pc = "fail", ![r].err = "noKey",
                               ![r].reset = Null]
            /\ UNCHANGED <<currentKey, requestCounter>>
       ELSE /\ currentKey' = SelectKey(snap)
            /\ requestCounter' = 0
            /\ rq' = [rq EXCEPT ![r].pc = "upstream", ![r].key = currentKey'.id,
                                ![r].rot = IF counting THEN rq[r].rot + 1 ELSE 0]
    /\ mutex' = Free
    /\ lpc' = "none"
    /\ snap' = <<>>
    /\ UNCHANGED <<db, addArg, now, added,
                 started, settings, masterApiKey, counting, checked, reactivated,
                 addRes, patch, revoked>>

\* deactivated, in cooldown or disabled by its daily limit
Unusable(key, t) ==
    ~key.isActive \/ InCooldown(key, t) \/ key.isDisabledByRateLimit

\* an outcome was written for the current key
OutcomeFor(h, key) ==
    IF key.id = 0 THEN h ELSE [h EXCEPT ![key.id] = FALSE]

\* ------------------------------------------------------ markKeySuccess
\* variant: the slot is taken to hold a key whatever it holds
HasCurrentKey_Always(key) == TRUE

\* this.currentKey is not null
HasCurrentKey(key) == key.id # 0

markKeySuccessKey(key, t) ==
    [key EXCEPT !.lastUsed = t,
                !.requestCount = key.requestCount + 1,
                !.dailyRequestsUsed = key.dailyRequestsUsed + 1]

\* axios.post resolved: markKeySuccess (no mutex), response returned
UpstreamOk(r) ==
    /\ Settled
    /\ rq[r].pc = "upstream"
    /\ IF HasCurrentKey(currentKey)
       THEN /\ currentKey' = markKeySuccessKey(currentKey, now)
            /\ db' = save(db, currentKey')
       ELSE UNCHANGED <<currentKey, db>>
    /\ rq' = [rq EXCEPT ![r] = WriteLog([rq[r] EXCEPT
                                   !.pc = "done", !.res = "ok",
                                   !.hist = Append(rq[r].hist, "ok")])]
    /\ reactivated' = OutcomeFor(reactivated, currentKey)
    /\ UNCHANGED <<requestCounter, mutex, lpc, snap, addArg, now, added,
                 started, settings, masterApiKey, counting, checked,
                 addRes, patch, revoked>>

\* axios.post rejected: the catch block is entered
UpstreamFail(r, e) ==
    /\ Settled
    /\ mutex = Free
    /\ rq[r].pc = "upstream"
    /\ rq' = [rq EXCEPT ![r].pc = "fail", ![r].err = e, ![r].reset = Null,
                        ![r].hist = Append(rq[r].hist, e)]
    /\ UNCHANGED <<db, currentKey, requestCounter, mutex, lpc, snap, addArg, now, added,
                 started, settings, masterApiKey, counting, checked, reactivated,
                 addRes, patch, revoked>>

\* axios.post rejected with 429 and an x-ratelimit-reset header of value t
UpstreamFailReset(r, t) ==
    /\ Settled
    /\ mutex = Free
    /\ rq[r].pc = "upstream"
    /\ rq' = [rq EXCEPT ![r].pc = "fail", ![r].err = "429", ![r].reset = t,
                        ![r].hist = Append(rq[r].hist, "429")]
    /\ UNCHANGED <<db, currentKey, requestCounter, mutex, lpc, snap, addArg, now, added,
                 started, settings, masterApiKey, counting, checked, reactivated,
                 addRes, patch, revoked>>

\* -------------------------------------------------------- markKeyError
\* runExclusive acquired, up to the await of readSettings()
MarkErrStart(r) ==
    /\ Settled
    /\ mutex = Free
    /\ rq[r].pc = "fail"
    /\ IF ~HasCurrentKey(currentKey)
       THEN /\ rq' = [rq EXCEPT ![r] = AfterMarkError(rq[r], FALSE)]
            /\ UNCHANGED <<currentKey, mutex, lpc>>
       ELSE /\ mutex' = r
            /\ rq' = [rq EXCEPT ![r].pc = "markError"]
            /\ IF rq[r].err = "429"
               THEN /\ lpc' = "err429"
                    /\ UNCHANGED currentKey
               ELSE /\ lpc' = "errFail"
                    /\ currentKey' = [currentKey EXCEPT
                                         !.failureCount = currentKey.failureCount + 1]
    /\ UNCHANGED <<db, requestCounter, snap, addArg, now, added,
                 started, settings, masterApiKey, counting, checked, reactivated,
                 addRes, patch, revoked>>

\* variant: the reset time of the response is ignored
CooldownEnd_FallbackOnly(resetTime, t) == t + rateLimitCooldown

\* resetTime ? new Date(resetTime * 1000) : new Date(Date.now() + fallbackCooldownMs)
CooldownEnd(resetTime, t) ==
    IF resetTime # Null THEN resetTime ELSE t + rateLimitCooldown

\* 429 branch after readSettings(): cooldown set and saved
MarkErr429(r) ==
    /\ Settled
    /\ mutex = r
    /\ lpc = "err429"
    /\ currentKey' = [currentKey EXCEPT !.rateLimitResetAt = CooldownEnd(rq[r].reset, now)]
    /\ db' = save(db, currentKey')
    /\ reactivated' = OutcomeFor(reactivated, currentKey)
    /\ lpc' = "errClear"
    /\ UNCHANGED <<requestCounter, mutex, snap, addArg, rq, now, added,
                 started, settings, masterApiKey, counting, checked,
                 addRes, patch, revoked>>

\* failure branch after readSettings(): threshold test and save
MarkErrFail(r) ==
    /\ Settled
    /\ mutex = r
    /\ lpc = "errFail"
    /\ IF currentKey.failureCount >= maxFailureCount
       THEN /\ currentKey' = [currentKey EXCEPT !.isActive = FALSE]
            /\ lpc' = "errClear"
       ELSE /\ currentKey' = currentKey
            /\ lpc' = "errKeep"
    /\ db' = save(db, currentKey')
    /\ reactivated' = OutcomeFor(reactivated, currentKey)
    /\ UNCHANGED <<requestCounter, mutex, snap, addArg, rq, now, added,
                 started, settings, masterApiKey, counting, checked,
                 addRes, patch, revoked>>

\* save() returned: the slot is cleared (429, deactivation) or kept; return
MarkErrDone(r) ==
    /\ Settled
    /\ mutex = r
    /\ lpc \in {"errClear", "errKeep"}
    /\ currentKey' = IF lpc = "errClear" THEN NoRow ELSE currentKey
    /\ rq' = [rq EXCEPT ![r] = AfterMarkError(rq[r], rq[r].err = "429")]
    /\ mutex' = Free
    /\ lpc' = "none"
    /\ UNCHANGED <<db, requestCounter, snap, addArg, now, added,
                 started, settings, masterApiKey, counting, checked, reactivated,
                 addRes, patch, revoked>>

\* -------------------------------------------------------------- addKey
\* POST /api/admin/keys: runExclusive acquired, findOne({key}) issued
AddKeyStart(s, limit) ==
    /\ Settled
    /\ mutex = Free
    /\ \A k \in Keys : k < s => db[k].id # 0
    /\ mutex' = Admin
    /\ lpc' = "addRead"
    /\ addArg' = [key |-> s, limit |-> limit]
    /\ added < MaxAdds
    /\ added' = added + 1
    /\ UNCHANGED <<db, currentKey, requestCounter, snap, rq, now,
                 started, settings, masterApiKey, counting, checked, reactivated,
                 addRes, patch, revoked>>

\* variant: an empty key value puts no condition on the query, which then
\* returns the first row of the table
findOne_SkipsEmpty(d, s) ==
    IF s \in Keys THEN (IF d[s].id # 0 THEN <<d[s]>> ELSE <<>>)
    ELSE IF AllRows(d) # <<>> THEN <<AllRows(d)[1]>> ELSE <<>>

\* ApiKey.findOne({key}): the row whose key column equals s, if any; the
\* rows of the table have the key values in Keys
findOne(d, s) ==
    IF s \in Keys /\ d[s].id # 0 THEN <<d[s]>> ELSE <<>>

\* ApiKey.create throws before its INSERT
createThrows(s) == s = Empty

\* findOne returns
AddKeyRead ==
    /\ Settled
    /\ mutex = Admin
    /\ lpc = "addRead"
    /\ snap' = findOne(db, addArg.key)
    /\ lpc' = "addWrite"
    /\ UNCHANGED <<db, currentKey, requestCounter, mutex, addArg, rq, now, added,
                 started, settings, masterApiKey, counting, checked, reactivated,
                 addRes, patch, revoked>>

\* variant: the cooldown is not cleared
Reactivated_KeepsCooldown(key) ==
    [key EXCEPT !.isActive = TRUE, !.failureCount = 0,
                !.dailyRequestsUsed = 0,
                !.lastResetDate = Null, !.isDisabledByRateLimit = FALSE]

\* the reactivated copy of an existing record
Reactivated(key) ==
    [key EXCEPT !.isActive = TRUE, !.failureCount = 0,
                !.rateLimitResetAt = Null, !.dailyRequestsUsed = 0,
                !.lastResetDate = Null, !.isDisabledByRateLimit = FALSE]

\* existing record: reactivate and save; otherwise ApiKey.create, which
\* throws on an empty key value and inserts the row otherwise
AddKeyWrite ==
    /\ Settled
    /\ mutex = Admin
    /\ lpc = "addWrite"
    /\ db' = IF snap # <<>> THEN save(db, Reactivated(snap[1]))
             ELSE IF createThrows(addArg.key) THEN db
             ELSE IF db[addArg.key].id = 0
                  THEN [db EXCEPT ![addArg.key] = NewRow(addArg.key, addArg.limit)]
                  ELSE db
    /\ addRes' = IF snap # <<>> THEN "reactivated"
                 ELSE IF createThrows(addArg.key) THEN "error"
                 ELSE "created"
    /\ reactivated' = IF snap # <<>> /\ Unusable(snap[1], now)
                      THEN [reactivated EXCEPT ![snap[1].id] = TRUE]
                      ELSE reactivated
    /\ revoked' = [k \in Keys |->
                      IF db'[k] # db[k] /\ db'[k].isActive THEN "no" ELSE revoked[k]]
    /\ snap' = <<>>
    /\ addArg' = [key |-> Null, limit |-> Null]
    /\ mutex' = Free
    /\ lpc' = "none"
    /\ UNCHANGED <<currentKey, requestCounter, rq, now, added,
                 started, settings, masterApiKey, counting, checked, patch>>

\* ------------------------------------------- admin PATCH and DELETE
\* PATCH /api/admin/keys/:id, no mutex: findOne({_id}) returns the row
PatchRead(k) ==
    /\ Settled
    /\ patch = <<>>
    /\ added < MaxAdminOps
    /\ Present(k)
    /\ patch' = <<db[k]>>
    /\ added' = added + 1
    /\ UNCHANGED <<db, currentKey, requestCounter, mutex, lpc, snap, addArg, rq, now,
                 started, settings, masterApiKey, counting, checked, reactivated,
                 addRes, revoked>>

\* the toggled copy of the row PATCH read
Toggled(key) ==
    IF key.isActive THEN [key EXCEPT !.isActive = FALSE]
    ELSE [key EXCEPT !.isActive = TRUE, !.failureCount = 0,
                     !.rateLimitResetAt = Null, !.isDisabledByRateLimit = FALSE]

\* PATCH: isActive toggled, key.save()
PatchWrite ==
    /\ Settled
    /\ patch # <<>>
    /\ db' = save(db, Toggled(patch[1]))
    /\ revoked' = IF Present(patch[1].id)
                  THEN [revoked EXCEPT ![patch[1].id] =
                           IF Toggled(patch[1]).isActive THEN "no" ELSE "off"]
                  ELSE revoked
    /\ patch' = <<>>
    /\ UNCHANGED <<currentKey, requestCounter, mutex, lpc, snap, addArg, rq, now, added,
                 started, settings, masterApiKey, counting, checked, reactivated,
                 addRes>>

\* DELETE /api/admin/keys/:id, no mutex: ApiKey.deleteById removes the row
Delete(k) ==
    /\ Settled
    /\ added < MaxAdminOps
    /\ Present(k)
    /\ db' = [db EXCEPT ![k] = NoRow]
    /\ revoked' = [revoked EXCEPT ![k] = "gone"]
    /\ added' = added + 1
    /\ UNCHANGED <<currentKey, requestCounter, mutex, lpc, snap, addArg, rq, now,
                 started, settings, masterApiKey, counting, checked, reactivated,
                 addRes, patch>>

\* the request is canceled while axios.post is pending: the handler instance
\* calls neither markKeySuccess nor markKeyError and writes no log entry
Cancel(r) ==
    /\ Settled
    /\ rq[r].pc = "upstream"
    /\ rq' = [rq EXCEPT ![r].pc = "done", ![r].res = "canceled"]
    /\ UNCHANGED <<db, currentKey, requestCounter, mutex, lpc, snap, addArg, now, added,
                 started, settings, masterApiKey, counting, checked, reactivated,
                 addRes, patch, revoked>>

\* POST returned its response: the handler instance ends
Return(r) ==
    /\ rq[r].pc = "done"
    /\ rq' = [rq EXCEPT ![r] = [IdleReq EXCEPT !.pc = "end"]]
    /\ UNCHANGED <<db, currentKey, requestCounter, mutex, lpc, snap, addArg, now, added,
                 started, settings, masterApiKey, counting, checked, reactivated,
                 addRes, patch, revoked>>

\* --------------------------------------------------------------- clock
Tick ==
    /\ Settled
    /\ now < MaxTime
    /\ mutex = Free
    /\ \A r \in Reqs : rq[r].pc \in {"idle", "upstream", "end"}
    /\ now' = now + 1
    /\ checked' = IF DayOf(now + 1) # DayOf(now)
                  THEN [k \in Keys |-> FALSE] ELSE checked
    /\ UNCHANGED <<db, currentKey, requestCounter, mutex, lpc, snap, addArg, rq, added,
                 started, settings, masterApiKey, counting, reactivated,
                 addRes, patch, revoked>>

\* the clock advances while markKeyError waits for the save() of its 429
\* branch, the mutex held
SaveWait ==
    /\ now < MaxTime
    /\ mutex \in Reqs
    /\ lpc = "errClear"
    /\ now' = now + 1
    /\ checked' = IF DayOf(now + 1) # DayOf(now)
                  THEN [k \in Keys |-> FALSE] ELSE checked
    /\ UNCHANGED <<db, currentKey, requestCounter, mutex, lpc, snap, addArg, rq, added,
                 started, settings, masterApiKey, counting, reactivated,
                 addRes, patch, revoked>>

\* the next request arrives after the previous one was answered
Restart(r) ==
    /\ rq[r].pc = "end"
    /\ started < MaxStarts
    /\ started' = started + 1
    /\ rq' = [rq EXCEPT ![r] = IdleReq]
    /\ UNCHANGED <<db, currentKey, requestCounter, mutex, lpc, snap, addArg, now, added,
                 checked, reactivated,
                 settings, masterApiKey, counting,
                 addRes, patch, revoked>>

Errors == {"429", "5xx", "4xx"}

Next ==
    \/ \E r \in Reqs : Start(r)
    \/ \E r \in Reqs : GetKeyStart(r)
    \/ \E r \in Reqs : GetKeyChecks(r)
    \/ \E r \in Reqs : GetKeyDisabled(r)
    \/ \E r \in Reqs : GetKeyThreshold(r)
    \/ \E r \in Reqs : SweepRead(r)
    \/ \E r \in Reqs : SweepWrite(r)
    \/ \E r \in Reqs : AvailRead(r)
    \/ \E r \in Reqs : RotateSelect(r)
    \/ \E r \in Reqs : UpstreamOk(r)
    \/ \E r \in Reqs, e \in Errors : UpstreamFail(r, e)
    \/ \E r \in Reqs : MarkErrStart(r)
    \/ \E r \in Reqs : MarkErr429(r)
    \/ \E r \in Reqs : MarkErrFail(r)
    \/ \E r \in Reqs : MarkErrDone(r)
    \/ \E s \in Keys, limit \in Limits : AddKeyStart(s, limit)
    \/ AddKeyRead
    \/ AddKeyWrite
    \/ \E r \in Reqs : Return(r)
    \/ Tick

Spec == Init /\ [][Next]_vars

\* one caller at a time on a store used before: requests are served one after
\* another, no addKey
NextSeq ==
    \/ Start(1)
    \/ Unauthorized(1)
    \/ GetKeyStart(1)
    \/ GetKeyChecks(1)
    \/ GetKeyDisabled(1)
    \/ GetKeyThreshold(1)
    \/ SweepRead(1)
    \/ SweepWrite(1)
    \/ AvailRead(1)
    \/ RotateSelect(1)
    \/ UpstreamOk(1)
    \/ \E e \in Errors : UpstreamFail(1, e)
    \/ MarkErrStart(1)
    \/ MarkErr429(1)
    \/ MarkErrFail(1)
    \/ MarkErrDone(1)
    \/ Return(1)
    \/ Restart(1)
    \/ Tick

SpecSeq == InitStored /\ [][NextSeq]_vars

\* the steps of the handler instance r
ReqStep(r) ==
    \/ Start(r) \/ GetKeyStart(r) \/ GetKeyChecks(r) \/ GetKeyDisabled(r)
    \/ GetKeyThreshold(r) \/ SweepRead(r) \/ SweepWrite(r) \/ AvailRead(r)
    \/ RotateSelect(r) \/ UpstreamOk(r) \/ (\E e \in Errors : UpstreamFail(r, e))
    \/ MarkErrStart(r) \/ MarkErr429(r) \/ MarkErrFail(r) \/ MarkErrDone(r)
    \/ Return(r)

\* every ready continuation runs: database and settings calls complete, the
\* upstream call resolves or rejects, the mutex is handed to its waiters
Fairness == \A r \in Reqs : WF_vars(ReqStep(r))

\* a new deployment: every key present and never used, the first one with a
\* daily limit, the others without
InitFresh ==
    /\ Init
    /\ \A k \in Keys :
          Present(k) /\ db[k].dailyRateLimit = (IF k = 1 THEN DailyCap ELSE Null)

\* concurrent requests and the clock, no addKey
NextReq ==
    \/ \E r \in Reqs : ReqStep(r)
    \/ Tick

SpecFair == InitFresh /\ [][NextReq]_vars /\ Fairness

\* concurrent requests on a new deployment, the first caller sending its next
\* request after the answer to the previous one; no addKey
Resend(r) ==
    /\ started < BusyStarts
    /\ Restart(r)

NextBusy ==
    \/ NextReq
    \/ Resend(1)

SpecBusy == InitFresh /\ [][NextBusy]_vars

\* a new deployment with any accepted value of maxRetries from 0 up
InitOne ==
    /\ db = [k \in Keys |-> NewRow(k, IF k = 1 THEN DailyCap ELSE Null)]
    /\ added = 0
    /\ started = 1
    /\ checked = [k \in Keys |-> FALSE]
    /\ reactivated = [k \in Keys |-> FALSE]
    /\ currentKey = NoRow
    /\ requestCounter = 0
    /\ mutex = Free
    /\ lpc = "none"
    /\ snap = <<>>
    /\ addArg = [key |-> Null, limit |-> Null]
    /\ addRes = "none"
    /\ patch = <<>>
    /\ revoked = [k \in Keys |-> "no"]
    /\ rq = [r \in Reqs |-> IdleReq]
    /\ now = 0
    /\ \E m \in 0..MaxRetriesHi : settings = [maxRetries |-> m, keyRotationDelaySeconds |-> 0]
    /\ masterApiKey = Null
    /\ counting = FALSE

\* values of the x-ratelimit-reset header
ResetTimes == 0..(MaxTime + 1)

\* one caller at a time; a 429 may carry a reset time
NextOne ==
    \/ Start(1)
    \/ GetKeyStart(1)
    \/ GetKeyChecks(1)
    \/ GetKeyDisabled(1)
    \/ GetKeyThreshold(1)
    \/ SweepRead(1)
    \/ SweepWrite(1)
    \/ AvailRead(1)
    \/ RotateSelect(1)
    \/ UpstreamOk(1)
    \/ \E e \in Errors : UpstreamFail(1, e)
    \/ \E t \in ResetTimes : UpstreamFailReset(1, t)
    \/ MarkErrStart(1)
    \/ MarkErr429(1)
    \/ MarkErrFail(1)
    \/ MarkErrDone(1)
    \/ Return(1)
    \/ Restart(1)
    \/ Tick

SpecOne == InitOne /\ [][NextOne]_vars

\* key values passed to addKey: those of the keys and the empty string
Secrets == Keys \cup {Empty}

\* one caller sending its requests one after another on a new deployment,
\* with the admin operations addKey, PATCH and DELETE
NextAdmin ==
    \/ ReqStep(1)
    \/ Resend(1)
    \/ Tick
    \/ \E s \in Secrets, limit \in Limits : AddKeyStart(s, limit)
    \/ AddKeyRead
    \/ AddKeyWrite
    \/ \E k \in Keys : PatchRead(k)
    \/ PatchWrite
    \/ \E k \in Keys : Delete(k)

SpecAdmin == InitFresh /\ [][NextAdmin]_vars

\* the table of a new deployment
FreshStore == [k \in Keys |-> NewRow(k, IF k = 1 THEN DailyCap ELSE Null)]

\* one caller sending its requests one after another on a new deployment;
\* a request may be canceled while its upstream call is pending
NextCancel ==
    \/ ReqStep(1)
    \/ Cancel(1)
    \/ Resend(1)
    \/ Tick

SpecCancel == InitFresh /\ [][NextCancel]_vars

\* a new deployment with any keyRotationDelaySeconds from 0 up
InitDelay ==
    /\ db = [k \in Keys |-> NewRow(k, IF k = 1 THEN DailyCap ELSE Null)]
    /\ added = 0
    /\ started = 1
    /\ checked = [k \in Keys |-> FALSE]
    /\ reactivated = [k \in Keys |-> FALSE]
    /\ currentKey = NoRow
    /\ requestCounter = 0
    /\ mutex = Free
    /\ lpc = "none"
    /\ snap = <<>>
    /\ addArg = [key |-> Null, limit |-> Null]
    /\ addRes = "none"
    /\ patch = <<>>
    /\ revoked = [k \in Keys |-> "no"]
    /\ rq = [r \in Reqs |-> IdleReq]
    /\ now = 0
    /\ \E d \in 0..MaxDelay :
          settings = [maxRetries |-> maxRetries, keyRotationDelaySeconds |-> d]
    /\ masterApiKey = Null
    /\ counting = FALSE

\* concurrent requests; the clock may advance during the save() of
\* markKeyError
NextDelay ==
    \/ NextReq
    \/ SaveWait

SpecDelay == InitDelay /\ [][NextDelay]_vars

\* ---------------------------------------------------------------------
\* a getKey call of request r returns on this step
Returns(r) == rq[r].pc = "getKey" /\ rq'[r].pc = "upstream"

\* C1: every key with a positive dailyRateLimit has
\* dailyRequestsUsed <= dailyRateLimit, in every reachable state.
C1_DailyUsedWithinLimit ==
    \A k \in Keys :
        (Present(k) /\ db[k].dailyRateLimit # Null /\ db[k].dailyRateLimit > 0)
            => db[k].dailyRequestsUsed <= db[k].dailyRateLimit

\* C2: the record of the key a getKey call returns, from the slot or from a
\* rotation, has no rateLimitResetAt later than the current time.
C2_NoCooldownKeyReturned ==
    [][\A r \in Reqs :
          Returns(r) => ~InCooldown(db'[rq'[r].key], now')]_vars

\* C2 witness: a rotation has just handed out key 2 while key 1, never used,
\* active and not disabled, is left out because its cooldown is still running.
C2_Witness ==
    \E r \in Reqs :
        /\ rq[r].pc = "upstream" /\ rq[r].key = 2
        /\ currentKey.id = 2 /\ requestCounter = 0
        /\ Present(1) /\ db[1].isActive /\ ~db[1].isDisabledByRateLimit
        /\ db[1].lastUsed = Null /\ InCooldown(db[1], now)

\* C3: while an operation holds the engine lock and stands at one of its
\* awaits, no other engine operation changes a key record or the active slot.
C3_OperationsExclusive ==
    [][(mutex # Free /\ mutex' = mutex /\ lpc' = lpc)
          => UNCHANGED <<db, currentKey>>]_vars

\* C4: every key record with failureCount >= maxFailureCount has
\* isActive = FALSE, whichever engine operation wrote the record last.
C4_ThresholdMeansInactive ==
    \A k \in Keys :
        (Present(k) /\ db[k].failureCount >= maxFailureCount) => ~db[k].isActive

\* C5: the write that deactivates a key at the failure threshold finds it
\* active (no key is deactivated a second time), no getKey returns a key whose
\* record is inactive, and a rotation that finds every record inactive fails
\* with NoAvailableKey.
C5_DeactivatedKeyExcluded ==
    [][/\ (lpc = "errFail" /\ lpc' = "errClear")
            => (db[currentKey.id].isActive /\ ~db'[currentKey.id].isActive)
       /\ \A r \in Reqs : Returns(r) => db'[rq'[r].key].isActive
       /\ \A r \in Reqs :
            (mutex = r /\ lpc = "select" /\ lpc' = "none"
                /\ \A k \in Keys : Present(k) => ~db[k].isActive)
            => (rq'[r].pc = "fail" /\ rq'[r].err = "noKey")]_vars

\* C5 witness: the only key was deactivated at the failure threshold and the
\* getKey that followed failed with NoAvailableKey.
C5_Witness ==
    /\ \E r \in Reqs : rq[r].pc = "fail" /\ rq[r].err = "noKey"
    /\ Present(1) /\ ~Present(2)
    /\ ~db[1].isActive /\ db[1].failureCount >= maxFailureCount

\* C6: the key a rotation selects is one of the candidates; it has never been
\* used if some candidate has never been used, and otherwise no candidate has
\* a smaller lastUsed.
C6_HybridSelection ==
    [][(lpc = "select" /\ lpc' = "none" /\ snap # <<>>) =>
          /\ \E i \in 1..Len(snap) : currentKey' = snap[i]
          /\ (\E i \in 1..Len(snap) : snap[i].lastUsed = Null)
                => currentKey'.lastUsed = Null
          /\ (\A i \in 1..Len(snap) : snap[i].lastUsed # Null)
                => \A i \in 1..Len(snap) : currentKey'.lastUsed <= snap[i].lastUsed]_vars

\* C6 witness: both keys were candidates and both had been used; a rotation
\* has just selected key 2, the second in table order, used before key 1.
C6_Witness ==
    \E r \in Reqs :
        /\ rq[r].pc = "upstream" /\ rq[r].key = 2
        /\ currentKey.id = 2 /\ requestCounter = 0
        /\ Present(1) /\ db[1].isActive /\ ~db[1].isDisabledByRateLimit
        /\ db[1].rateLimitResetAt = Null /\ db[1].lastUsed # Null
        /\ currentKey.lastUsed # Null /\ currentKey.lastUsed < db[1].lastUsed

\* C7: with keyRotationRequestCount = N > 0, a getKey call that returns the
\* key of the slot without rotating, while another key is eligible, is at most
\* the N-th call that returns this key since the rotation that chose it (the
\* rotating call is the first, each return from the slot adds one to
\* requestCounter).
C7_RotatesAfterNCalls ==
    [][\A r \in Reqs :
          (/\ keyRotationRequestCount > 0
           /\ Returns(r) /\ lpc = "threshold"
           /\ \E k \in Keys : /\ k # currentKey.id /\ Present(k)
                               /\ IsAvailable(db[k], now))
            => requestCounter' + 1 <= keyRotationRequestCount]_vars

\* C8: once a daily-reset check (getKey check 2 or the rotation sweep) has
\* seen a key on a local day, no later getKey or sweep on that day lowers its
\* dailyRequestsUsed or clears its isDisabledByRateLimit.
C8_ResetOncePerDay ==
    [][\A k \in Keys :
          (Present(k) /\ checked[k] /\ DayOf(now') = DayOf(now))
            => /\ db'[k].dailyRequestsUsed >= db[k].dailyRequestsUsed
               /\ db[k].isDisabledByRateLimit => db'[k].isDisabledByRateLimit]_vars

Restored(key) ==
    /\ key.isActive /\ key.failureCount = 0 /\ key.rateLimitResetAt = Null
    /\ key.dailyRequestsUsed = 0 /\ ~key.isDisabledByRateLimit

\* C10: addKey on the secret of an existing record adds no record and leaves
\* that record active, with failureCount 0, no cooldown, dailyRequestsUsed 0
\* and not disabled, hence a rotation candidate; a record that was unusable
\* when addKey restored it stays so until an outcome is written for that key.
C10_AddKeyRestores ==
    [][/\ (lpc = "addWrite" /\ lpc' = "none" /\ snap # <<>>) =>
             /\ \A k \in Keys : Present(k) <=> db'[k].id # 0
             /\ Restored(db'[addArg.key])
             /\ IsAvailable(db'[addArg.key], now')
       /\ \A k \in Keys :
             reactivated'[k] => (Restored(db'[k]) /\ IsAvailable(db'[k], now'))]_vars

\* C10 witness: a key that addKey restored from an unusable state has been
\* handed out by a later getKey.
C10_Witness ==
    \E r \in Reqs, k \in Keys :
        reactivated[k] /\ rq[r].pc = "upstream" /\ rq[r].key = k /\ currentKey.id = k

\* the upstream calls request r has issued so far
Calls(r) == Len(rq[r].hist) + (IF rq[r].pc = "upstream" THEN 1 ELSE 0)

\* C11: a request never issues more upstream calls than the maxRetries it
\* read, its retry count rises only after a 429 or a 5xx outcome, and every
\* request that entered the retry loop ends with a response to the caller.
C11_BoundedRetriesTerminate ==
    /\ [](\A r \in Reqs : Calls(r) <= rq[r].max)
    /\ [][\A r \in Reqs :
            rq'[r].retry > rq[r].retry => rq[r].err \in {"429", "5xx"}]_vars
    /\ \A r \in Reqs : (rq[r].pc = "loop") ~> (rq[r].pc = "done")

\* C11 witness: a request has issued maxRetries upstream calls, the last one
\* after a retry, and is being answered.
C11_Witness ==
    \E r \in Reqs :
        /\ rq[r].pc = "done" /\ rq[r].max > 1
        /\ Len(rq[r].hist) = rq[r].max /\ rq[r].retry = rq[r].max - 1
\* request r fails with NoAvailableKey and has not been answered yet
NoKeyPending(r) == rq[r].err = "noKey" /\ rq[r].pc \in {"fail", "markError"}

\* C12: a request whose getKey failed with NoAvailableKey issues no upstream
\* call and makes no further attempt, is answered with that error, and the
\* steps that handle the failure change no record's failureCount or
\* rateLimitResetAt.
C12_NoAvailableKeyTerminal ==
    [][\A r \in Reqs : NoKeyPending(r) =>
          /\ rq'[r].pc \in {"fail", "markError", "done"}
          /\ rq'[r].pc = "done" => rq'[r].res = "noKey"
          /\ (rq'[r] # rq[r] \/ (mutex = r /\ lpc' # lpc)) =>
                \A k \in Keys :
                    /\ db'[k].failureCount = db[k].failureCount
                    /\ db'[k].rateLimitResetAt = db[k].rateLimitResetAt]_vars

\* C13: a request that is answered after all the attempts it may make have
\* failed with 429 or 5xx is answered "maximum retries exceeded", not the
\* error of its last upstream call.
C13_MaxRetriesExceeded ==
    \A r \in Reqs :
        (/\ rq[r].pc = "done" /\ rq[r].max > 0
         /\ Len(rq[r].hist) = rq[r].max
         /\ \A i \in 1..Len(rq[r].hist) : rq[r].hist[i] \in {"429", "5xx"})
            => rq[r].res = "maxRetries"

\* C14: an upstream 4xx other than 429 is not retried (the request goes from
\* the failure through markKeyError straight to the error response, with no
\* further getKey or upstream call), and markKeyError adds exactly 1 to the
\* failureCount of the key the failed call used: it increments the record of
\* that key, starting from its stored count, and stores the result.
C14_ClientErrorNotRetried ==
    [][\A r \in Reqs : rq[r].err = "4xx" =>
          /\ (rq[r].pc = "fail" /\ rq'[r] # rq[r]) =>
                /\ rq'[r].pc = "markError"
                /\ currentKey.id = rq[r].key
                /\ currentKey.failureCount = db[rq[r].key].failureCount
                /\ currentKey'.failureCount = currentKey.failureCount + 1
          /\ (rq[r].pc = "markError" /\ mutex = r /\ lpc = "errFail" /\ lpc' # lpc) =>
                /\ currentKey.id = rq[r].key
                /\ db'[rq[r].key].failureCount = currentKey.failureCount
          /\ (rq[r].pc = "markError" /\ rq'[r] # rq[r]) =>
                /\ rq'[r].pc = "done"
                /\ rq'[r].res = "4xx"
                /\ rq'[r].retry = rq[r].retry]_vars

\* C15: a request whose attempts fail only with transient errors until one
\* succeeds returns the upstream success; with maxRetries = 3 and the outcomes
\* 429, 500, success, exactly two 'Key Rotation' events and one 'Key Success'
\* event are logged for it.
C15_TransientThenSuccess ==
    \A r \in Reqs :
        (rq[r].pc = "done" /\ Len(rq[r].hist) > 0
         /\ rq[r].hist[Len(rq[r].hist)] = "ok") =>
            /\ rq[r].res = "ok"
            /\ (counting /\ rq[r].max = 3 /\ rq[r].hist = <<"429", "5xx", "ok">>) =>
                   rq[r].rot = 2

\* the step is a markKeySuccess call of some request
MarkSuccessStep ==
    \E r \in Reqs : rq[r].pc = "upstream" /\ rq'[r].pc = "done" /\ rq'[r].res = "ok"

\* C16: the stored requestCount and dailyRequestsUsed of a key increase only
\* in a markKeySuccess step (never in getKey, markKeyError or addKey), and a
\* markKeySuccess with a key in the slot raises both stored counters of that
\* key by exactly 1 and sets its lastUsed to the current time.
C16_CountersOnlyBySuccess ==
    [][/\ \A k \in Keys :
             (\/ db'[k].requestCount > db[k].requestCount
              \/ db'[k].dailyRequestsUsed > db[k].dailyRequestsUsed) =>
                 (MarkSuccessStep /\ currentKey.id = k)
       /\ (MarkSuccessStep /\ currentKey.id # 0) =>
             /\ db'[currentKey.id].requestCount = db[currentKey.id].requestCount + 1
             /\ db'[currentKey.id].dailyRequestsUsed =
                    db[currentKey.id].dailyRequestsUsed + 1
             /\ db'[currentKey.id].lastUsed = now]_vars

\* C17: failureCount counts consecutive failures since the last success: a
\* markKeySuccess on the key in the slot brings its failureCount back to 0,
\* in memory and in the store.
C17_SuccessResetsFailureCount ==
    [][(MarkSuccessStep /\ currentKey.id # 0) =>
          /\ currentKey'.failureCount = 0
          /\ db'[currentKey.id].failureCount = 0]_vars

\* C18: the slot is only a cache: whenever no getKey, markKeyError or addKey
\* is in progress, the in-memory key in the slot has the same fields as the
\* stored record with its id.
C18_SlotEqualsStoredRecord ==
    (mutex = Free /\ currentKey.id # 0) => db[currentKey.id] = currentKey

C20_MasterKeyCheck ==
    [][\A r \in Reqs :
          /\ (counting /\ rq[r].pc = "idle" /\ rq'[r].pc # "idle") =>
                IF masterApiKey # Null /\ rq'[r].tok # masterApiKey
                THEN /\ rq'[r].pc = "done"
                     /\ rq'[r].res = "401"
                     /\ rq'[r].key = Null
                     /\ rq'[r].hist = <<>>
                     /\ UNCHANGED <<db, currentKey, requestCounter>>
                ELSE /\ rq'[r].pc = "loop"
                     /\ rq'[r].res = "none"
          /\ (rq[r].res = "401" /\ rq'[r] # rq[r]) =>
                /\ rq'[r].pc = "end"
                /\ UNCHANGED <<db, currentKey, requestCounter>>]_vars

\* C20 witness: MASTER_API_KEY is set and a request carrying another token
\* has been answered 401.
C20_Witness ==
    \E r \in Reqs :
        /\ masterApiKey = MasterKey
        /\ rq[r].pc = "done"
        /\ rq[r].res = "401"
        /\ rq[r].tok = OtherKey

\* C22: with several requests in flight, the markKeySuccess or markKeyError
\* issued for a request writes only the stored record of the key that this
\* request's own getKey returned; the record of every other key is left as
\* it is.
C22_OutcomeAttribution ==
    [][\A r \in Reqs :
          (\/ rq[r].pc = "upstream" /\ rq'[r].pc = "done" /\ rq'[r].res = "ok"
           \/ rq[r].pc = "markError" /\ mutex = r /\ lpc' # lpc) =>
              \A k \in Keys : k # rq[r].key => db'[k] = db[k]]_vars

\* C24: getKey never returns, from the slot or from a rotation, a key whose
\* stored record has a positive dailyRateLimit and dailyRequestsUsed at or
\* above it.
C24_NoKeyAtDailyLimitReturned ==
    [][\A r \in Reqs : Returns(r) => ~LimitReached(db'[rq'[r].key])]_vars

\* C25: after a retryable failure (429 or 5xx) with attempts remaining, the
\* getKey of the next attempt returns a key different from the one the failed
\* attempt used, whenever another key is eligible.
C25_FreshKeyOnRetry ==
    [][\A r \in Reqs :
          (/\ Returns(r)
           /\ rq[r].retry > 0
           /\ rq[r].err \in {"429", "5xx"}
           /\ rq[r].key # Null
           /\ \E k \in Keys : k # rq[r].key /\ Present(k) /\ IsAvailable(db[k], now)) =>
              rq'[r].key # rq[r].key]_vars

\* the stored record of key k satisfies the candidate condition
Eligible(k) ==
    /\ db[k].id # 0
    /\ db[k].isActive
    /\ ~db[k].isDisabledByRateLimit
    /\ (db[k].rateLimitResetAt = Null \/ db[k].rateLimitResetAt <= now)

\* C26: getKey fails with NoAvailableKey exactly when, after the daily-reset
\* sweep of its rotation, no stored key is active, not disabled by its daily
\* limit and out of cooldown; otherwise it returns a key, and every key it
\* returns is such a key.  A key whose cooldown has elapsed is one of them.
C26_NoAvailableKeyIffNoCandidate ==
    [][\A r \in Reqs :
          /\ (mutex = r /\ lpc = "select" /\ lpc' # lpc) =>
                /\ (rq'[r].pc = "fail" /\ rq'[r].err = "noKey")
                      <=> ~(\E k \in Keys : Eligible(k))
                /\ (\E k \in Keys : Eligible(k)) => rq'[r].pc = "upstream"
          /\ Returns(r) => (rq'[r].key \in Keys /\ Eligible(rq'[r].key))]_vars

\* C26 witness: getKey has returned, by rotation, a key whose cooldown was set
\* earlier and has elapsed.
C26_Witness ==
    \E r \in Reqs :
        /\ rq[r].pc = "upstream"
        /\ rq[r].key \in Keys
        /\ currentKey.id = rq[r].key
        /\ requestCounter = 0
        /\ currentKey.rateLimitResetAt # Null
        /\ currentKey.rateLimitResetAt <= now

\* C27: no update of the stored usage state is lost: the stored requestCount
\* of a key never decreases, and its stored dailyRequestsUsed decreases only
\* to 0 in a daily reset of a record last reset on another local day, so the
\* increments of a completed markKeySuccess are never overwritten by an
\* older copy of the record: every markKeySuccess leaves both stored
\* counters of its key one above their stored values.
C27_NoLostUpdates ==
    [][/\ \A k \in Keys : Present(k) =>
             /\ db'[k].requestCount >= db[k].requestCount
             /\ db'[k].dailyRequestsUsed < db[k].dailyRequestsUsed =>
                   /\ db'[k].dailyRequestsUsed = 0
                   /\ NeedsDailyReset(db[k], now)
       /\ (MarkSuccessStep /\ currentKey.id # 0) =>
             /\ db'[currentKey.id].requestCount = db[currentKey.id].requestCount + 1
             /\ db'[currentKey.id].dailyRequestsUsed =
                    db[currentKey.id].dailyRequestsUsed + 1]_vars

\* the 429 branch of markKeyError, for the request r that holds the mutex:
\* the cooldown end is the reset time of the response if there is one and
\* now + rateLimitCooldown otherwise, it is stored, failureCount and isActive
\* keep their values, the slot is emptied and the error is retried while
\* attempts remain
RateLimitBranch(r) ==
    /\ (mutex = r /\ lpc = "err429" /\ lpc' # lpc) =>
          /\ currentKey'.rateLimitResetAt =
                 (IF rq[r].reset # Null THEN rq[r].reset ELSE now + rateLimitCooldown)
          /\ db'[currentKey.id] = currentKey'
          /\ db'[currentKey.id].failureCount = db[currentKey.id].failureCount
          /\ db'[currentKey.id].isActive = db[currentKey.id].isActive
    /\ (rq[r].pc = "markError" /\ rq[r].err = "429" /\ rq'[r] # rq[r]) =>
          /\ currentKey' = NoRow
          /\ rq[r].retry < rq[r].max - 1 =>
                (rq'[r].pc = "loop" /\ rq'[r].retry = rq[r].retry + 1)

\* C23: markKeyError on a 429 sets and stores the cooldown, empties
\* the slot and leaves failureCount and isActive alone, and the getKey that
\* follows returns a different key (or fails).
C23_RateLimitCooldown ==
    [][\A r \in Reqs :
          /\ RateLimitBranch(r)
          /\ (Returns(r) /\ rq[r].err = "429" /\ rq[r].retry > 0) =>
                rq'[r].key # rq[r].key]_vars

\* C23, restricted to a cooldown that ends after the time of the getKey that
\* follows: under that condition the key that got the 429 is not returned.
C23_FutureCooldownExcludesKey ==
    [][\A r \in Reqs :
          /\ RateLimitBranch(r)
          /\ (/\ Returns(r) /\ rq[r].err = "429" /\ rq[r].retry > 0
              /\ db[rq[r].key].rateLimitResetAt # Null
              /\ db[rq[r].key].rateLimitResetAt > now) =>
                rq'[r].key # rq[r].key]_vars

\* C23 witness: a 429 carried a reset time, the key that got it is in
\* cooldown until that time, and the retry has been given another key.
C23_Witness ==
    \E r \in Reqs : \E k \in Keys :
        /\ rq[r].pc = "upstream"
        /\ rq[r].err = "429"
        /\ rq[r].retry > 0
        /\ rq[r].reset # Null
        /\ k # rq[r].key
        /\ db[k].rateLimitResetAt = rq[r].reset
        /\ db[k].rateLimitResetAt > now

\* C29: a request that reached the retry loop has no usage-log entry while
\* its attempts go on and exactly one when it has ended.
C29_OneLogEntryPerRequest ==
    \A r \in Reqs :
        /\ rq[r].pc \notin {"idle", "done", "end"} => rq[r].logs = 0
        /\ (rq[r].pc = "done" /\ rq[r].res # "401") => rq[r].logs = 1

\* C29, the credential id: the entry of a request that has ended carries the
\* id of the key the getKey of the final attempt returned (none when that
\* getKey returned no key or no attempt was made).
C29_LogEntryKey ==
    \A r \in Reqs :
        (rq[r].pc = "done" /\ rq[r].logs > 0) =>
            rq[r].logKey = IF rq[r].res \in {"noKey", "maxRetries"}
                           THEN Null ELSE rq[r].key

\* C30: for every accepted maxRetries, a request that passed the Master API
\* Key check and got an error made at least one attempt first: it called
\* getKey, which returned a key or failed.
C30_AttemptBeforeError ==
    \A r \in Reqs :
        (rq[r].pc = "done" /\ rq[r].res \notin {"401", "ok"}) =>
            (rq[r].key # Null \/ rq[r].err # "none")

\* addKey takes the step that starts it, or one of its steps under the mutex
AddKeyStep ==
    \/ (mutex = Free /\ mutex' = Admin)
    \/ (mutex = Admin /\ lpc' # lpc)

\* C21: an addKey call with an empty key value changes no row and creates
\* none in any of its steps, and it ends with an error.
C21_EmptySecretRejected ==
    [][(AddKeyStep /\ (addArg.key = Empty \/ addArg'.key = Empty)) =>
          /\ db' = db
          /\ lpc = "addWrite" => addRes' = "error"]_vars

\* C21 witness: an addKey call has ended with an error on a store whose first
\* record has usage that a reactivation would have cleared.
C21_Witness ==
    /\ addRes = "error"
    /\ mutex = Free
    /\ Present(1)
    /\ db[1].dailyRequestsUsed > 0

\* C28: a getKey call that began after the admin PATCH deactivated a key or
\* the admin DELETE removed it, the change still standing, does not return
\* that key.
C28_AdminChangesRespected ==
    [][\A r \in Reqs : \A k \in rq[r].rev :
          (Returns(r) /\ revoked[k] # "no") => rq'[r].key # k]_vars

\* C28, the stored flag: while a key stays deactivated by the admin PATCH, no
\* step sets its stored isActive back to true.
C28_NoReactivationByEngine ==
    [][\A k \in Keys :
          (revoked[k] = "off" /\ revoked'[k] = "off" /\ Present(k) /\ ~db[k].isActive)
              => ~db'[k].isActive]_vars

\* C31: when keyRotationDelaySeconds > 0, the markKeyError of a 429 clears the
\* slot and returns no earlier than that delay after it stored the cooldown
\* (here the fallback cooldown, stored as the time of the save plus
\* rateLimitCooldown), and until then no other caller starts or completes
\* a getKey or markKeyError.
C31_DelayUnderLock ==
    [][\A r \in Reqs :
          (/\ mutex = r /\ lpc = "errClear" /\ rq[r].err = "429"
           /\ rq[r].reset = Null
           /\ settings.keyRotationDelaySeconds > 0) =>
              /\ mutex' = Free =>
                    now >= (currentKey.rateLimitResetAt - rateLimitCooldown)
                               + settings.keyRotationDelaySeconds
              /\ \A q \in Reqs \ {r} :
                    rq'[q].pc # rq[q].pc => rq[q].pc \in {"idle", "upstream", "done", "end"}]_vars

\* C32: the first request to a new deployment, canceled on its first attempt
\* after getKey returned and before an upstream outcome, leaves every key
\* record, the slot and the counter as they were before the request.
C32_CanceledRequestNoChange ==
    \A r \in Reqs :
        (/\ rq[r].pc = "done" /\ rq[r].res = "canceled"
         /\ rq[r].retry = 0 /\ rq[r].hist = <<>>
         /\ started = 1
         /\ \A q \in Reqs \ {r} : rq[q].pc = "idle") =>
            /\ db = FreshStore
            /\ currentKey = NoRow
            /\ requestCounter = 0

\* C33: with an empty slot, markKeySuccess and markKeyError leave every key
\* record, the slot and the counter unchanged, and markKeyError returns
\* false, for a 429 too: the 429 is then not retried.
C33_EmptySlotNoOp ==
    [][\A r \in Reqs :
          /\ (/\ rq[r].pc = "upstream" /\ rq'[r].pc = "done" /\ rq'[r].res = "ok"
              /\ currentKey.id = 0) =>
                 (db' = db /\ currentKey' = currentKey
                     /\ requestCounter' = requestCounter)
          /\ (rq[r].pc = "fail" /\ rq'[r].pc # "fail" /\ currentKey.id = 0) =>
                 /\ db' = db /\ currentKey' = currentKey
                 /\ requestCounter' = requestCounter
                 /\ mutex' = mutex
                 /\ rq[r].err = "429" =>
                       (rq'[r].pc = "done" /\ rq'[r].res = "429")]_vars

\* C33 witness: a request got a 429 with attempts left, markKeyError found
\* the slot empty and returned false, and the request ended with the 429.
C33_Witness ==
    \E r \in Reqs :
        /\ rq[r].pc = "done"
        /\ rq[r].res = "429"
        /\ rq[r].retry < rq[r].max - 1
        /\ currentKey.id = 0

====
